---- MODULE Spec2Model ----
(***************************************************************************)
(* Model of mqtt_mcp.mqtt_client: AsyncioHelper and AsyncMQTTClient.      *)
(*                                                                         *)
(* One Connection (an AsyncMQTTClient with its paho client), the asyncio   *)
(* event loop that runs its coroutines, and the broker at the other end   *)
(* of the socket.  Durations are in tenths of a second.  Time advances to *)
(* the next pending deadline; work that is ready to run runs before time  *)
(* advances.                                                               *)
(***************************************************************************)
EXTENDS Integers, Sequences, FiniteSets, TLC

\* ---------------------------------------------------------------- bounds
MaxCalls == 2
MaxCloses == 2
MaxReady == 2
Slack == 1
MaxErrorLen == 4

\* ------------------------------------------------------ program constants
ConnectTimeout == 50
SubAckTimeout == 20
SettleDelay == 2
PublishAckTimeout == 50
PublishFlushDelay == 1
CloseGraceDelay == 1

\* ------------------------------------------------------------ input sets
Topics == {"A", "B"}
Timeouts == {1}
QoS == {0, 1}
ConnackCodes == {0, 5}
LostCodes == {7}
Calls == 1..MaxCalls

\* the text published: code points of one, two and three UTF-8 bytes
Messages == {<<102, 233, 8364>>}

\* ------------------------------------------------------------- payloads
\* str.encode("utf-8") of one code point
EncodePoint(c) ==
    IF c < 128 THEN <<c>>
    ELSE IF c < 2048 THEN <<192 + (c \div 64), 128 + (c % 64)>>
    ELSE <<224 + (c \div 4096), 128 + ((c \div 64) % 64), 128 + (c % 64)>>

RECURSIVE Encode(_)
Encode(s) ==
    IF s = <<>> THEN <<>> ELSE EncodePoint(Head(s)) \o Encode(Tail(s))

IsCont(b) == b >= 128 /\ b < 192

DecodeLatin1(b) == [ok |-> TRUE, text |-> b]

\* bytes.decode(): strict UTF-8; ok = FALSE stands for UnicodeDecodeError
RECURSIVE Decode(_)
Decode(b) ==
    IF b = <<>> THEN [ok |-> TRUE, text |-> <<>>]
    ELSE LET h == Head(b)
             n == IF h < 128 THEN 1
                  ELSE IF h >= 194 /\ h < 224 THEN 2
                  ELSE IF h >= 224 /\ h < 240 THEN 3
                  ELSE 0
         IN  IF n = 0 \/ Len(b) < n THEN [ok |-> FALSE, text |-> <<>>]
             ELSE IF \E k \in 2..n : ~IsCont(b[k]) THEN [ok |-> FALSE, text |-> <<>>]
             ELSE LET cp == IF n = 1 THEN h
                            ELSE IF n = 2 THEN (h - 192) * 64 + (b[2] - 128)
                            ELSE (h - 224) * 4096 + (b[2] - 128) * 64 + (b[3] - 128)
                      rest == Decode(SubSeq(b, n + 1, Len(b)))
                  IN  IF n = 3 /\ cp < 2048 THEN [ok |-> FALSE, text |-> <<>>]
                      ELSE IF rest.ok THEN [ok |-> TRUE, text |-> <<cp>> \o rest.text]
                      ELSE rest

\* a caller's timeout, given in seconds
Seconds(n) == n * 10

\* what other Connections and other publishers send on the broker: the
\* texts of Messages as publish encodes them, and bytes that are not UTF-8
ExtPayloads == {Encode(m) : m \in Messages} \cup {<<255>>}

\* ------------------------------------------------------ server.py prompts
\* text is a sequence of one-character strings
Chars == {"a", "'", "\""}

RECURSIVE StringsUpTo(_)
StringsUpTo(n) ==
    IF n = 0 THEN {<<>>}
    ELSE LET S == StringsUpTo(n - 1)
         IN  S \cup {Append(x, c) : x \in {y \in S : Len(y) = n - 1}, c \in Chars}

\* the error argument: None (given = FALSE) or a str
NoError == [given |-> FALSE, text |-> <<>>]

Errors == {NoError} \cup {[given |-> TRUE, text |-> x] : x \in StringsUpTo(MaxErrorLen)}

Has(x, c) == \E k \in 1..Len(x) : x[k] = c

RECURSIVE Escaped(_)
Escaped(x) ==
    IF x = <<>> THEN <<>>
    ELSE (IF Head(x) = "'" THEN <<"\\", "'">> ELSE <<Head(x)>>) \o Escaped(Tail(x))

\* repr() of a str: double quotes if it holds ' and no ", otherwise single
\* quotes with ' escaped
Repr(x) ==
    IF Has(x, "'") /\ ~Has(x, "\"")
    THEN <<"\"">> \o x \o <<"\"">>
    ELSE <<"'">> \o Escaped(x) \o <<"'">>

Message(content) == [role |-> "user", content |-> content]

mqtt_help ==
    <<Message(<<"Here are examples of how to publish and receives messages:">>),
      Message(<<"Publish {\"foo\":\"bar\"} to topic \"devices/foo\" on 127.0.0.1:1883.">>),
      Message(<<"Receive a message from topic \"devices/bar\", waiting up to 30 seconds.">>)>>

mqtt_error_always(error) ==
    <<Message(<<"ERROR: ">> \o Repr(error.text)),
      Message(<<"Would you like to retry, change parameters, or abort?">>)>>

mqtt_error(error) ==
    IF error.given /\ error.text # <<>>
    THEN <<Message(<<"ERROR: ">> \o Repr(error.text)),
           Message(<<"Would you like to retry, change parameters, or abort?">>)>>
    ELSE <<>>

\* -------------------------------------------------------------- state
VARIABLES
    is_windows,     \* AsyncioHelper.is_windows
    life,           \* position of __aenter__ / __aexit__
    open_result,    \* how __aenter__ ended
    conn_fut,       \* connection_future
    conn_timer,     \* remaining time of wait_for(connection_future, 5.0)
    connack,        \* reason code of the connect callback delivered, -1 if none
    connect_sent,   \* broker: the CONNECT packet has arrived
    sock,           \* the paho client's socket
    reader,         \* loop.add_reader registration
    writer,         \* loop.add_writer registration
    misc,           \* AsyncioHelper.misc task
    thread,         \* paho loop_start thread
    outq,           \* packets queued by the client, not yet written
    ready,          \* callbacks scheduled with loop.call_soon_threadsafe
    invalid_state,  \* a scheduled settlement raised InvalidStateError
    on_message,     \* client.on_message: 0 is None, i the closure of call i
    on_subscribe,   \* client.on_subscribe
    future,         \* self.future: 0 is None, i the future created by call i
    calls,          \* receive / publish calls
    ncalls,
    msgfut,         \* the futures created at line 144, by call
    subfut,         \* subscription_future, by call
    subs,           \* broker: topics this connection is subscribed to
    suback,         \* broker: subscribe requests to acknowledge
    inflight,       \* broker: publishes routed to this connection
    puback,         \* broker: publishes to acknowledge
    published,      \* MQTTMessageInfo.is_published(), by call
    closes,
    close_timer,
    prompt,         \* server.py: the last prompt rendered and what it returned
    thread_cb       \* the on_message call that the loop_start thread is in

connv == <<is_windows, life, open_result, conn_fut, conn_timer, connack,
          connect_sent, sock,
          reader, writer, misc, thread, outq, ready, invalid_state,
          on_message, on_subscribe, future, calls, ncalls, msgfut, subfut,
          subs, suback, inflight, puback, published, closes, close_timer,
          thread_cb>>

vars == <<connv, prompt>>

lifev == <<life, open_result, conn_timer, closes, close_timer>>
brokerv == <<connect_sent, subs, suback, inflight, puback, published>>
handlerv == <<on_message, on_subscribe, future>>
callv == <<calls, ncalls, msgfut, subfut>>
sockv == <<sock, reader, writer, misc, thread>>

NoVal == [text |-> <<>>, topic |-> "", bytes |-> <<>>]
NoFut == [state |-> "unset", err |-> "", v |-> NoVal]
PendingFut == [state |-> "pending", err |-> "", v |-> NoVal]

NoCall == [kind |-> "none", pc |-> "idle", topic |-> "", timeout |-> 0,
           qos |-> 0, message |-> <<>>, orig_msg |-> 0, orig_sub |-> 0,
           timer |-> 0, waitfut |-> 0, outcome |-> "none", value |-> NoVal,
           elapsed |-> 0,
           overlapped |-> FALSE, alone |-> TRUE, due |-> "",
           lost |-> FALSE, prior |-> {}]

\* the loop_start thread is in no callback
IdleCb == [stage |-> "idle", h |-> 0, topic |-> "", bytes |-> <<>>]

Init ==
    /\ is_windows \in BOOLEAN
    /\ life = "new"
    /\ open_result = "none"
    /\ conn_fut = NoFut
    /\ conn_timer = 0
    /\ connack = -1
    /\ connect_sent = FALSE
    /\ sock = "none"
    /\ reader = FALSE
    /\ writer = FALSE
    /\ misc = "unset"
    /\ thread = FALSE
    /\ outq = <<>>
    /\ ready = <<>>
    /\ invalid_state = FALSE
    /\ on_message = 0
    /\ on_subscribe = 0
    /\ future = 0
    /\ calls = [i \in Calls |-> NoCall]
    /\ ncalls = 0
    /\ msgfut = [i \in Calls |-> NoFut]
    /\ subfut = [i \in Calls |-> NoFut]
    /\ subs = {}
    /\ suback = {}
    /\ inflight = <<>>
    /\ puback = {}
    /\ published = {}
    /\ closes = 0
    /\ close_timer = 0
    /\ prompt = [name |-> "none", error |-> NoError, messages |-> <<>>]
    /\ thread_cb = IdleCb

\* ------------------------------------------------------ AsyncioHelper
\* h is the helper's registration state [reader, misc]

on_socket_open(h) == [reader |-> TRUE, misc |-> "running"]

on_socket_close_keeps_reader(h) ==
    [reader |-> h.reader,
     misc |-> IF h.misc = "unset" THEN "unset" ELSE "cancelled"]

on_socket_close(h) ==
    [reader |-> FALSE,
     misc |-> IF h.misc = "unset" THEN "unset" ELSE "cancelled"]

\* stop_loop on Unix: cancels the misc task when there is one
stop_loop(m) == IF m = "unset" THEN "unset" ELSE "cancelled"

Helper == [reader |-> reader, misc |-> misc]

\* the wait_for_publish of some publish call holds the event loop's thread
Blocked == \E i \in Calls : calls[i].pc = "pub_block"

Active(i) == calls[i].pc \notin {"idle", "done"}

\* the transport can run loop_read: from the reader callback on Unix, from
\* the loop_start thread on Windows
CanRead ==
    /\ sock = "open"
    /\ IF is_windows THEN thread /\ thread_cb.stage = "idle"
       ELSE reader /\ ~Blocked

CanWrite ==
    /\ sock = "open"
    /\ outq # <<>>
    /\ IF is_windows THEN thread /\ thread_cb.stage = "idle"
       ELSE writer /\ ~Blocked

\* ------------------------------------------- callbacks of __aenter__
Settle(f, op, err, v) == [fut |-> f, op |-> op, err |-> err, v |-> v]

on_connect_any_code(rc) ==
    <<Settle(<<"conn", 0>>, "set_result", "", NoVal)>>

on_connect(rc) ==
    IF rc = 0
    THEN <<Settle(<<"conn", 0>>, "set_result", "", NoVal)>>
    ELSE <<Settle(<<"conn", 0>>, "set_exception", "rejected", NoVal)>>

on_disconnect(rc) ==
    IF rc # 0 /\ conn_fut.state = "pending"
    THEN <<Settle(<<"conn", 0>>, "set_exception", "disconnected", NoVal)>>
    ELSE <<>>

\* ------------------------------------------------- packets and broker
Packet(type, call) == [type |-> type, call |-> call]

Broker == [connect_sent |-> connect_sent, subs |-> subs, suback |-> suback,
           inflight |-> inflight, puback |-> puback, published |-> published,
           closed |-> FALSE]

\* the broker's handling of one packet written by the client
BrokerTakes(br, p) ==
    IF br.closed THEN br
    ELSE IF p.type = "CONNECT" THEN [br EXCEPT !.connect_sent = TRUE]
    ELSE IF p.type = "SUBSCRIBE" THEN
        [br EXCEPT !.subs = @ \cup {calls[p.call].topic},
                   !.suback = @ \cup {p.call}]
    ELSE IF p.type = "PUBLISH" THEN
        LET c == calls[p.call]
            m == [topic |-> c.topic, bytes |-> Encode(c.message)]
        IN  [br EXCEPT
               !.inflight = IF c.topic \in br.subs THEN Append(@, m) ELSE @,
               !.puback = IF c.qos > 0 THEN @ \cup {p.call} ELSE @,
               !.published = IF c.qos = 0 THEN @ \cup {p.call} ELSE @]
    ELSE [br EXCEPT !.closed = TRUE, !.subs = {}, !.suback = {},
                    !.inflight = <<>>, !.puback = {}]

RECURSIVE WriteAll(_, _)
WriteAll(q, br) ==
    IF q = <<>> THEN br ELSE WriteAll(Tail(q), BrokerTakes(br, Head(q)))

\* the loop_write of the transport: everything queued goes out; after a
\* DISCONNECT the client closes its socket
LoopWrite ==
    /\ CanWrite
    /\ LET br == WriteAll(outq, Broker)
           h == on_socket_close(Helper)
       IN  /\ connect_sent' = br.connect_sent
           /\ subs' = br.subs
           /\ suback' = br.suback
           /\ inflight' = br.inflight
           /\ puback' = br.puback
           /\ published' = br.published
           /\ outq' = <<>>
           /\ writer' = FALSE
           /\ sock' = IF br.closed THEN "closed" ELSE sock
           /\ reader' = IF br.closed /\ ~is_windows THEN h.reader ELSE reader
           /\ misc' = IF br.closed /\ ~is_windows THEN h.misc ELSE misc
           /\ ready' = IF br.closed THEN ready \o on_disconnect(0) ELSE ready
    /\ UNCHANGED <<is_windows, prompt, thread_cb, lifev, conn_fut, connack, thread,
                   invalid_state, handlerv, callv>>

\* ------------------------------------------------------------ __aenter__
\* lines 91-124; connect() either raises (socket error) or returns with the
\* socket open and the CONNECT packet queued
OpenStart ==
    /\ life = "new"
    /\ conn_fut' = PendingFut
    /\ thread' = is_windows
    /\ \E raises \in BOOLEAN :
        IF raises
        THEN /\ life' = "failed"
             /\ open_result' = "os_error"
             /\ UNCHANGED <<sock, reader, misc, writer, outq, conn_timer>>
        ELSE /\ life' = "connecting"
             /\ open_result' = "none"
             /\ sock' = "open"
             /\ reader' = IF is_windows THEN reader ELSE on_socket_open(Helper).reader
             /\ misc' = IF is_windows THEN misc ELSE on_socket_open(Helper).misc
             /\ writer' = ~is_windows
             /\ outq' = <<Packet("CONNECT", 0)>>
             /\ conn_timer' = ConnectTimeout
    /\ UNCHANGED <<is_windows, prompt, thread_cb, connack, brokerv, ready, invalid_state,
                   handlerv, callv, closes, close_timer>>

\* the connect acknowledgment arrives and paho calls on_connect; after a
\* rejection the same loop_read closes the socket and calls on_disconnect
\* with the reason code, before the event loop runs anything scheduled
DeliverConnack(rc) ==
    /\ CanRead
    /\ connect_sent
    /\ connack = -1
    /\ Len(ready) < MaxReady
    /\ connack' = rc
    /\ IF rc = 0
       THEN /\ ready' = ready \o on_connect(rc)
            /\ UNCHANGED <<sockv, subs, suback, inflight, puback>>
       ELSE /\ ready' = ready \o on_connect(rc) \o on_disconnect(rc)
            /\ sock' = "closed"
            /\ writer' = FALSE
            /\ reader' = IF is_windows THEN reader ELSE on_socket_close(Helper).reader
            /\ misc' = IF is_windows THEN misc ELSE on_socket_close(Helper).misc
            /\ subs' = {}
            /\ suback' = {}
            /\ inflight' = <<>>
            /\ puback' = {}
            /\ UNCHANGED thread
    /\ UNCHANGED <<is_windows, prompt, thread_cb, lifev, conn_fut, connect_sent, published, outq,
                   invalid_state, handlerv, callv>>

\* the connection is lost: paho closes the socket and calls on_disconnect
DeliverDisconnect(rc) ==
    /\ CanRead
    /\ Len(ready) < MaxReady
    /\ sock' = "closed"
    /\ writer' = FALSE
    /\ reader' = IF is_windows THEN reader ELSE on_socket_close(Helper).reader
    /\ misc' = IF is_windows THEN misc ELSE on_socket_close(Helper).misc
    /\ ready' = ready \o on_disconnect(rc)
    /\ subs' = {}
    /\ suback' = {}
    /\ inflight' = <<>>
    /\ puback' = {}
    /\ calls' = [i \in Calls |->
                   IF calls[i].pc \in {"msg_wait", "pub_block"}
                   THEN [calls[i] EXCEPT !.lost = TRUE] ELSE calls[i]]
    /\ UNCHANGED <<is_windows, prompt, thread_cb, lifev, conn_fut, connack, connect_sent,
                   published, thread, outq, invalid_state, handlerv, ncalls,
                   msgfut, subfut>>

\* line 128 returns: the future has a result or an exception
OpenDone ==
    /\ life = "connecting"
    /\ conn_fut.state \in {"result", "exception"}
    /\ life' = IF conn_fut.state = "result" THEN "open" ELSE "failed"
    /\ open_result' = IF conn_fut.state = "result" THEN "ok" ELSE conn_fut.err
    /\ conn_timer' = 0
    /\ UNCHANGED <<is_windows, prompt, thread_cb, conn_fut, connack, brokerv, sockv,
                   outq, ready, invalid_state, handlerv, callv, closes,
                   close_timer>>

\* lines 129-133: the 5 seconds are over
OpenTimeout ==
    /\ life = "connecting"
    /\ conn_timer = 0
    /\ conn_fut.state = "pending"
    /\ conn_fut' = [conn_fut EXCEPT !.state = "cancelled"]
    /\ misc' = IF is_windows THEN misc ELSE stop_loop(misc)
    /\ thread' = FALSE
    /\ life' = "failed"
    /\ open_result' = "timeout_error"
    /\ UNCHANGED <<is_windows, prompt, thread_cb, conn_timer, connack, brokerv, sock, reader,
                   writer, outq, ready, invalid_state, handlerv, callv,
                   closes, close_timer>>

\* ------------------------------------------------- the event loop's queue
\* the loop runs the next callback scheduled by call_soon_threadsafe;
\* settling a future that is already done raises InvalidStateError there
RunReady ==
    /\ ~Blocked
    /\ ready # <<>>
    /\ LET e == Head(ready)
           k == e.fut[1]
           i == e.fut[2]
           f == IF k = "conn" THEN conn_fut
                ELSE IF k = "sub" THEN subfut[i] ELSE msgfut[i]
           g == [state |-> IF e.op = "set_result" THEN "result" ELSE "exception",
                 err |-> e.err, v |-> e.v]
           ok == f.state = "pending"
       IN  /\ ready' = Tail(ready)
           /\ invalid_state' = (invalid_state \/ ~ok)
           /\ conn_fut' = IF ok /\ k = "conn" THEN g ELSE conn_fut
           /\ subfut' = IF ok /\ k = "sub" THEN [subfut EXCEPT ![i] = g] ELSE subfut
           /\ msgfut' = IF ok /\ k = "msg" THEN [msgfut EXCEPT ![i] = g] ELSE msgfut
    /\ UNCHANGED <<is_windows, prompt, thread_cb, lifev, connack, brokerv, sockv, outq,
                   handlerv, calls, ncalls>>

\* ------------------------------------------------ callbacks of receive
\* on_message of the closure installed by call h (0: no handler), lines
\* 150-161; self.future is read when the callback runs
RECURSIVE on_message_cb(_, _, _)
on_message_cb(h, t, b) ==
    IF h = 0 THEN <<>>
    ELSE IF t = calls[h].topic /\ future # 0 /\ msgfut[future].state = "pending"
    THEN LET d == Decode(b)
         IN  IF d.ok
             THEN <<Settle(<<"msg", future>>, "set_result", "",
                           [text |-> d.text, topic |-> t, bytes |-> b])>>
             ELSE <<Settle(<<"msg", future>>, "set_exception", "decode",
                           [text |-> <<>>, topic |-> t, bytes |-> b])>>
    ELSE IF calls[h].orig_msg # 0
    THEN on_message_cb(calls[h].orig_msg, t, b)
    ELSE <<>>

\* on_subscribe of the closure installed by call h, lines 167-173
RECURSIVE on_subscribe_cb(_)
on_subscribe_cb(h) ==
    IF h = 0 THEN <<>>
    ELSE (IF subfut[h].state = "pending"
          THEN <<Settle(<<"sub", h>>, "set_result", "", NoVal)>>
          ELSE <<>>)
         \o (IF calls[h].orig_sub # 0
             THEN on_subscribe_cb(calls[h].orig_sub)
             ELSE <<>>)

\* --------------------------------------------------------------- receive
Others(i) == {j \in Calls : j # i /\ Active(j)}

\* a call that has ended keeps what its closures and its queued packet read,
\* and how it ended
Ended(c, outcome, value) ==
    [NoCall EXCEPT !.kind = c.kind, !.pc = "done", !.topic = c.topic,
                   !.timeout = c.timeout, !.qos = c.qos, !.message = c.message,
                   !.orig_msg = c.orig_msg, !.orig_sub = c.orig_sub,
                   !.outcome = outcome, !.value = value]

NewCall(i, kind, topic, timeout, qos, message) ==
    [NoCall EXCEPT !.kind = kind, !.topic = topic, !.timeout = timeout,
                   !.qos = qos, !.message = message,
                   !.orig_msg = on_message, !.orig_sub = on_subscribe,
                   !.overlapped = \E j \in Others(i) : calls[j].kind = "receive",
                   !.alone = (Others(i) = {}),
                   !.prior = {j \in Calls : calls[j].kind = "publish"
                                            /\ calls[j].outcome = "ok"}]

NotAlone(cs, i) ==
    [j \in Calls |-> IF j # i /\ Active(j)
                     THEN [cs[j] EXCEPT !.alone = FALSE, !.elapsed = 0]
                     ELSE cs[j]]

\* what client.subscribe returns: MQTT_ERR_NO_CONN when the client has no
\* socket
subscribe(s) == IF s = "open" THEN "MQTT_ERR_SUCCESS" ELSE "MQTT_ERR_NO_CONN"

SubscribeFailedNever(result) == FALSE

\* line 181
SubscribeFailed(result) == result # "MQTT_ERR_SUCCESS"

\* lines 143-191, up to the first await
ReceiveStart(i, topic, timeout) ==
    /\ life = "open"
    /\ ~Blocked
    /\ i = ncalls + 1
    /\ i \in Calls
    /\ ncalls' = i
    /\ future' = i
    /\ msgfut' = [msgfut EXCEPT ![i] = PendingFut]
    /\ subfut' = [subfut EXCEPT ![i] = PendingFut]
    /\ LET c == NewCall(i, "receive", topic, timeout, 1, <<>>)
       IN  IF ~SubscribeFailed(subscribe(sock))
           THEN /\ on_subscribe' = i
                /\ on_message' = i
                /\ outq' = Append(outq, Packet("SUBSCRIBE", i))
                /\ writer' = ~is_windows
                /\ calls' = NotAlone([calls EXCEPT ![i] =
                               [c EXCEPT !.pc = "sub_wait",
                                         !.timer = SubAckTimeout]], i)
           ELSE \* lines 181-187: subscribe returned an error
                /\ on_message' = IF on_message # 0 THEN on_message ELSE i
                /\ on_subscribe' = IF on_subscribe # 0 THEN on_subscribe ELSE i
                /\ calls' = NotAlone([calls EXCEPT ![i] =
                               Ended(c, "subscribe_error", NoVal)], i)
                /\ UNCHANGED <<outq, writer>>
    /\ UNCHANGED <<is_windows, prompt, thread_cb, lifev, conn_fut, connack, brokerv, sock,
                   reader, misc, thread, ready, invalid_state>>

\* the subscribe acknowledgment arrives and paho calls client.on_subscribe
DeliverSuback(i) ==
    /\ CanRead
    /\ i \in suback
    /\ Len(ready) < MaxReady
    /\ suback' = suback \ {i}
    /\ ready' = ready \o on_subscribe_cb(on_subscribe)
    /\ UNCHANGED <<is_windows, prompt, thread_cb, lifev, conn_fut, connack, connect_sent, subs,
                   inflight, puback, published, sockv, outq, invalid_state,
                   handlerv, callv>>

\* the first message on the topic of a receive that is under way: where
\* the call was when the message was delivered ("bad": the payload is not
\* UTF-8, "late": the caller's timeout is over)
Matched(t, b) ==
    [i \in Calls |->
        IF Active(i) /\ calls[i].kind = "receive" /\ calls[i].topic = t
           /\ calls[i].due = ""
        THEN [calls[i] EXCEPT !.due =
                 IF ~Decode(b).ok THEN "bad"
                 ELSE IF calls[i].pc = "msg_wait" /\ calls[i].timer = 0 THEN "late"
                 ELSE calls[i].pc]
        ELSE calls[i]]

\* a message published through this Connection arrives
DeliverMessage ==
    /\ CanRead
    /\ inflight # <<>>
    /\ Len(ready) < MaxReady
    /\ LET m == Head(inflight)
       IN  /\ ready' = ready \o on_message_cb(on_message, m.topic, m.bytes)
           /\ calls' = Matched(m.topic, m.bytes)
    /\ inflight' = Tail(inflight)
    /\ UNCHANGED <<is_windows, prompt, thread_cb, lifev, conn_fut, connack, connect_sent, subs,
                   suback, puback, published, sockv, outq, invalid_state,
                   handlerv, ncalls, msgfut, subfut>>

\* a message of another publisher arrives on a subscribed topic
DeliverExternal(t, b) ==
    /\ CanRead
    /\ t \in subs
    /\ Len(ready) < MaxReady
    /\ ready' = ready \o on_message_cb(on_message, t, b)
    /\ calls' = Matched(t, b)
    /\ UNCHANGED <<is_windows, prompt, thread_cb, lifev, conn_fut, connack, brokerv, sockv, outq,
                   invalid_state, handlerv, ncalls, msgfut, subfut>>

\* the closure of the chain that starts at h whose test at line 152 holds
\* for a message on topic t; 0 if there is none
RECURSIVE Matching(_, _)
Matching(h, t) ==
    IF h = 0 THEN 0
    ELSE IF t = calls[h].topic /\ future # 0 /\ msgfut[future].state = "pending"
    THEN h
    ELSE Matching(calls[h].orig_msg, t)

\* on_message called on the loop_start thread, up to the test at line 152;
\* the event loop's thread runs while the callback goes on
ThreadMessageCheck(t, b) ==
    /\ is_windows
    /\ CanRead
    /\ t \in subs
    /\ Len(ready) < MaxReady
    /\ calls' = Matched(t, b)
    /\ thread_cb' = IF Matching(on_message, t) = 0 THEN IdleCb
                    ELSE [stage |-> "checked", h |-> Matching(on_message, t),
                          topic |-> t, bytes |-> b]
    /\ UNCHANGED <<is_windows, prompt, lifev, conn_fut, connack, brokerv, sockv,
                   outq, ready, invalid_state, handlerv, ncalls, msgfut, subfut>>

\* lines 153-158 on the loop_start thread: self.future is read again; if
\* line 210 has set it to None, self.future.set_result raises
\* AttributeError, so does self.future.done() in the except block, and the
\* exception leaves the callback and ends the thread
ThreadMessageSettle ==
    /\ thread_cb.stage = "checked"
    /\ IF future = 0
       THEN /\ thread_cb' = [thread_cb EXCEPT !.stage = "raised"]
            /\ thread' = FALSE
            /\ UNCHANGED ready
       ELSE /\ thread_cb' = IdleCb
            /\ ready' = ready \o
                 (LET d == Decode(thread_cb.bytes)
                      v == [text |-> d.text, topic |-> thread_cb.topic,
                            bytes |-> thread_cb.bytes]
                  IN  IF d.ok
                      THEN <<Settle(<<"msg", future>>, "set_result", "", v)>>
                      ELSE <<Settle(<<"msg", future>>, "set_exception", "decode", v)>>)
            /\ UNCHANGED thread
    /\ UNCHANGED <<is_windows, prompt, lifev, conn_fut, connack, brokerv, sock,
                   reader, writer, misc, outq, invalid_state, handlerv, callv>>

\* line 191 returns
SubWaitDone(i) ==
    /\ ~Blocked
    /\ calls[i].pc = "sub_wait"
    /\ subfut[i].state = "result"
    /\ calls' = [calls EXCEPT ![i].pc = "settle", ![i].timer = SettleDelay]
    /\ UNCHANGED <<is_windows, prompt, thread_cb, lifev, conn_fut, connack, brokerv, sockv, outq,
                   ready, invalid_state, handlerv, ncalls, msgfut, subfut>>

\* lines 192-194: the 2 seconds are over, wait_for cancels the future
SubWaitTimeout(i) ==
    /\ ~Blocked
    /\ calls[i].pc = "sub_wait"
    /\ calls[i].timer = 0
    /\ subfut[i].state = "pending"
    /\ subfut' = [subfut EXCEPT ![i].state = "cancelled"]
    /\ calls' = [calls EXCEPT ![i].pc = "settle", ![i].timer = SettleDelay]
    /\ UNCHANGED <<is_windows, prompt, thread_cb, lifev, conn_fut, connack, brokerv, sockv, outq,
                   ready, invalid_state, handlerv, ncalls, msgfut>>

\* lines 201-210
FinallyOnMessage(i) == calls[i].orig_msg

FinallyOnSubscribe(i) ==
    IF calls[i].orig_sub # 0 THEN calls[i].orig_sub ELSE on_subscribe

\* line 197 is over; line 200 reads self.future and starts to wait for it
SettleDone(i) ==
    /\ ~Blocked
    /\ calls[i].pc = "settle"
    /\ calls[i].timer = 0
    /\ IF future = 0
       THEN \* wait_for(None, timeout) raises TypeError, the finally runs
            /\ calls' = [calls EXCEPT ![i] = Ended(@, "type_error", NoVal)]
            /\ on_message' = FinallyOnMessage(i)
            /\ on_subscribe' = FinallyOnSubscribe(i)
            /\ future' = 0
       ELSE /\ calls' = [calls EXCEPT ![i].pc = "msg_wait",
                                      ![i].waitfut = future,
                                      ![i].timer = Seconds(calls[i].timeout)]
            /\ UNCHANGED handlerv
    /\ UNCHANGED <<is_windows, prompt, thread_cb, lifev, conn_fut, connack, brokerv, sockv, outq,
                   ready, invalid_state, ncalls, msgfut, subfut>>

\* a future whose result its only waiter has taken: nothing reads the
\* result again, only done()
Retrieved(f) == [state |-> f.state, err |-> "", v |-> NoVal]

\* line 200 returns or raises what the future holds
MsgWaitDone(i) ==
    /\ ~Blocked
    /\ calls[i].pc = "msg_wait"
    /\ LET f == msgfut[calls[i].waitfut]
       IN  /\ f.state \in {"result", "exception", "cancelled"}
           /\ calls' = [calls EXCEPT ![i] =
                  Ended(@, IF f.state = "result" THEN "payload"
                           ELSE IF f.state = "exception" THEN "decode_error"
                           ELSE "cancelled_error",
                        IF f.state = "result" THEN f.v ELSE NoVal)]
           /\ msgfut' = IF \E j \in Others(i) : calls[j].waitfut = calls[i].waitfut
                         THEN msgfut
                         ELSE [msgfut EXCEPT ![calls[i].waitfut] = Retrieved(f)]
    /\ on_message' = FinallyOnMessage(i)
    /\ on_subscribe' = FinallyOnSubscribe(i)
    /\ future' = 0
    /\ UNCHANGED <<is_windows, prompt, thread_cb, lifev, conn_fut, connack, brokerv, sockv, outq,
                   ready, invalid_state, ncalls, subfut>>

\* the caller's timeout is over: wait_for cancels the future and raises
MsgWaitTimeout(i) ==
    /\ ~Blocked
    /\ calls[i].pc = "msg_wait"
    /\ calls[i].timer = 0
    /\ msgfut[calls[i].waitfut].state = "pending"
    /\ msgfut' = [msgfut EXCEPT ![calls[i].waitfut].state = "cancelled"]
    /\ calls' = [calls EXCEPT ![i] = Ended(@, "timeout", NoVal)]
    /\ on_message' = FinallyOnMessage(i)
    /\ on_subscribe' = FinallyOnSubscribe(i)
    /\ future' = 0
    /\ UNCHANGED <<is_windows, prompt, thread_cb, lifev, conn_fut, connack, brokerv, sockv, outq,
                   ready, invalid_state, ncalls, subfut>>

\* the task that runs receive is cancelled while it waits: before line
\* 199 nothing is restored, at line 200 the finally runs
CancelReceive(i) ==
    /\ ~Blocked
    /\ calls[i].pc \in {"sub_wait", "settle", "msg_wait"}
    /\ calls' = [calls EXCEPT ![i] = Ended(@, "cancelled", NoVal)]
    /\ IF calls[i].pc = "msg_wait"
       THEN /\ msgfut[calls[i].waitfut].state = "pending"
            /\ msgfut' = [msgfut EXCEPT ![calls[i].waitfut].state = "cancelled"]
            /\ on_message' = FinallyOnMessage(i)
            /\ on_subscribe' = FinallyOnSubscribe(i)
            /\ future' = 0
            /\ UNCHANGED subfut
       ELSE /\ subfut' = IF calls[i].pc = "sub_wait" /\ subfut[i].state = "pending"
                         THEN [subfut EXCEPT ![i].state = "cancelled"]
                         ELSE subfut
            /\ UNCHANGED <<msgfut, handlerv>>
    /\ UNCHANGED <<is_windows, prompt, thread_cb, lifev, conn_fut, connack, brokerv, sockv, outq,
                   ready, invalid_state, ncalls>>

\* --------------------------------------------------------------- publish
\* lines 213-218: the publish request, then the start of wait_for_publish
\* (qos > 0) or of the sleep (qos = 0)
PublishStart(c, topic, message, qos) ==
    /\ life = "open"
    /\ ~Blocked
    /\ c = ncalls + 1
    /\ c \in Calls
    /\ ncalls' = c
    /\ LET n == NewCall(c, "publish", topic, 0, qos, message)
       IN  IF sock = "open"
           THEN /\ outq' = Append(outq, Packet("PUBLISH", c))
                /\ writer' = ~is_windows
                /\ calls' = NotAlone([calls EXCEPT ![c] =
                      [n EXCEPT !.pc = IF qos > 0 THEN "pub_block" ELSE "pub_sleep",
                                !.timer = IF qos > 0 THEN PublishAckTimeout
                                          ELSE PublishFlushDelay]], c)
           ELSE \* lines 214-215
                /\ calls' = NotAlone([calls EXCEPT ![c] =
                      Ended(n, "publish_error", NoVal)], c)
                /\ UNCHANGED <<outq, writer>>
    /\ UNCHANGED <<is_windows, prompt, thread_cb, lifev, conn_fut, connack, brokerv, sock,
                   reader, misc, thread, ready, invalid_state, handlerv,
                   msgfut, subfut>>

\* the broker's delivery confirmation arrives
DeliverPuback(c) ==
    /\ CanRead
    /\ c \in puback
    /\ puback' = puback \ {c}
    /\ published' = published \cup {c}
    /\ UNCHANGED <<is_windows, prompt, thread_cb, lifev, conn_fut, connack, connect_sent, subs,
                   suback, inflight, sockv, outq, ready, invalid_state,
                   handlerv, callv>>

\* line 218 returns: the message is published or the 5 seconds are over;
\* what wait_for_publish returns is not looked at
PubBlockEnd(c) ==
    /\ calls[c].pc = "pub_block"
    /\ calls[c].timer = 0 \/ c \in published
    /\ calls' = [calls EXCEPT ![c].pc = "pub_sleep",
                              ![c].timer = PublishFlushDelay]
    /\ UNCHANGED <<is_windows, prompt, thread_cb, lifev, conn_fut, connack, brokerv, sockv, outq,
                   ready, invalid_state, handlerv, ncalls, msgfut, subfut>>

\* line 220 is over: publish returns
PubSleepDone(c) ==
    /\ ~Blocked
    /\ calls[c].pc = "pub_sleep"
    /\ calls[c].timer = 0
    /\ calls' = [calls EXCEPT ![c] =
                   Ended(@, "ok", NoVal)]
    /\ UNCHANGED <<is_windows, prompt, thread_cb, lifev, conn_fut, connack, brokerv, sockv, outq,
                   ready, invalid_state, handlerv, ncalls, msgfut, subfut>>

\* -------------------------------------------------------------- __aexit__
\* lines 138-140 up to the sleep.  On Windows loop_stop has ended the
\* thread, so disconnect() writes its packet itself; on Unix the packet
\* waits for the writer callback
CloseStart ==
    /\ life \in {"open", "closed"}
    /\ closes < MaxCloses
    /\ ~Blocked
    /\ \A i \in Calls : ~Active(i)
    /\ life' = "closing"
    /\ close_timer' = CloseGraceDelay
    /\ thread' = FALSE
    /\ IF sock # "open"
       THEN /\ misc' = IF is_windows THEN misc ELSE stop_loop(misc)
            /\ UNCHANGED <<sock, reader, writer, outq, brokerv, ready>>
       ELSE IF is_windows
       THEN LET br == WriteAll(Append(outq, Packet("DISCONNECT", 0)), Broker)
            IN  /\ connect_sent' = br.connect_sent
                /\ subs' = br.subs
                /\ suback' = br.suback
                /\ inflight' = br.inflight
                /\ puback' = br.puback
                /\ published' = br.published
                /\ outq' = <<>>
                /\ sock' = "closed"
                /\ ready' = ready \o on_disconnect(0)
                /\ UNCHANGED <<reader, writer, misc>>
       ELSE /\ misc' = stop_loop(misc)
            /\ outq' = Append(outq, Packet("DISCONNECT", 0))
            /\ writer' = TRUE
            /\ UNCHANGED <<sock, reader, brokerv, ready>>
    /\ UNCHANGED <<is_windows, prompt, thread_cb, open_result, conn_fut, conn_timer, connack,
                   invalid_state, handlerv, callv, closes>>

\* line 140 is over: __aexit__ returns
CloseDone ==
    /\ life = "closing"
    /\ close_timer = 0
    /\ life' = "closed"
    /\ closes' = closes + 1
    /\ UNCHANGED <<is_windows, prompt, thread_cb, open_result, conn_fut, conn_timer, connack,
                   brokerv, sockv, outq, ready, invalid_state, handlerv,
                   callv, close_timer>>

\* ------------------------------------------------------------------ time
Timed(i) == calls[i].pc \in {"sub_wait", "settle", "msg_wait", "pub_block", "pub_sleep"}

Timers ==
    {calls[i].timer : i \in {j \in Calls : Timed(j)}}
    \cup (IF life = "connecting" THEN {conn_timer} ELSE {})
    \cup (IF life = "closing" THEN {close_timer} ELSE {})

\* something is ready to run now
Urgent ==
    \/ CanWrite
    \/ thread_cb.stage = "checked"
    \/ \E c \in Calls : calls[c].pc = "pub_block" /\ (calls[c].timer = 0 \/ c \in published)
    \/ /\ ~Blocked
       /\ \/ ready # <<>>
          \/ life = "connecting" /\ (conn_timer = 0 \/ conn_fut.state # "pending")
          \/ life = "closing" /\ close_timer = 0
          \/ \E i \in Calls :
                \/ calls[i].pc \in {"sub_wait", "settle", "msg_wait", "pub_sleep"}
                   /\ calls[i].timer = 0
                \/ calls[i].pc = "sub_wait" /\ subfut[i].state # "pending"
                \/ calls[i].pc = "msg_wait"
                   /\ msgfut[calls[i].waitfut].state # "pending"

Min(S) == CHOOSE x \in S : \A y \in S : x <= y

Less(t, d) == IF t > d THEN t - d ELSE 0

\* time advances to the next deadline
Tick ==
    /\ ~Urgent
    /\ {t \in Timers : t > 0} # {}
    /\ LET d == Min({t \in Timers : t > 0})
       IN  /\ conn_timer' = IF life = "connecting" THEN Less(conn_timer, d) ELSE conn_timer
           /\ close_timer' = IF life = "closing" THEN Less(close_timer, d) ELSE close_timer
           /\ calls' = [i \in Calls |->
                  IF Timed(i)
                  THEN [calls[i] EXCEPT !.timer = Less(@, d),
                                        !.elapsed = IF calls[i].alone THEN @ + d ELSE 0]
                  ELSE calls[i]]
    /\ UNCHANGED <<is_windows, prompt, thread_cb, life, open_result, conn_fut, connack, brokerv,
                   sockv, outq, ready, invalid_state, handlerv, ncalls,
                   msgfut, subfut, closes>>

\* --------------------------------------------------------- specification
Quiet == \A j \in Calls : ~Active(j)

\* the caller awaits each call before it starts the next one
SerialReceive(i, t, s) == Quiet /\ ReceiveStart(i, t, s)

SerialPublish(c, t, m, q) == Quiet /\ PublishStart(c, t, m, q)

\* the connection attempt, the transport and the event loop
NextTransport ==
    \/ OpenStart
    \/ \E rc \in ConnackCodes : DeliverConnack(rc)
    \/ \E rc \in LostCodes : DeliverDisconnect(rc)
    \/ OpenDone
    \/ OpenTimeout
    \/ LoopWrite
    \/ RunReady
    \/ Tick

\* what happens during calls
NextCalls ==
    \/ \E i \in Calls : DeliverSuback(i)
    \/ DeliverMessage
    \/ \E t \in Topics, b \in ExtPayloads : DeliverExternal(t, b)
    \/ \E i \in Calls : SubWaitDone(i)
    \/ \E i \in Calls : SubWaitTimeout(i)
    \/ \E i \in Calls : SettleDone(i)
    \/ \E i \in Calls : MsgWaitDone(i)
    \/ \E i \in Calls : MsgWaitTimeout(i)
    \/ \E i \in Calls : CancelReceive(i)
    \/ \E c \in Calls : DeliverPuback(c)
    \/ \E c \in Calls : PubBlockEnd(c)
    \/ \E c \in Calls : PubSleepDone(c)

\* one Connection used as server.py uses it: opened, then one call at a time
Next ==
    \/ NextTransport
    \/ NextCalls
    \/ \E i \in Calls, t \in Topics, s \in Timeouts : SerialReceive(i, t, s)
    \/ \E c \in Calls, t \in Topics, m \in Messages, q \in QoS : SerialPublish(c, t, m, q)

Spec == Init /\ [][Next]_vars

\* open and close with no call in between
NextLifecycle ==
    \/ NextTransport
    \/ CloseStart
    \/ CloseDone

SpecLifecycle == Init /\ [][NextLifecycle]_vars

\* receive calls started while another receive is outstanding
NextConcurrent ==
    \/ NextTransport
    \/ \E i \in Calls : DeliverSuback(i)
    \/ \E t \in Topics, b \in ExtPayloads : DeliverExternal(t, b)
    \/ \E i \in Calls : SubWaitDone(i)
    \/ \E i \in Calls : SubWaitTimeout(i)
    \/ \E i \in Calls : SettleDone(i)
    \/ \E i \in Calls : MsgWaitDone(i)
    \/ \E i \in Calls : MsgWaitTimeout(i)
    \/ \E i \in Calls, t \in Topics, s \in Timeouts : ReceiveStart(i, t, s)

SpecConcurrent == Init /\ [][NextConcurrent]_vars

\* the polling fallback: the callbacks run on the loop_start thread
InitThreaded == Init /\ is_windows

NextThreaded ==
    \/ NextTransport
    \/ \E i \in Calls : DeliverSuback(i)
    \/ \E t \in Topics, b \in ExtPayloads : ThreadMessageCheck(t, b)
    \/ ThreadMessageSettle
    \/ \E i \in Calls : SubWaitDone(i)
    \/ \E i \in Calls : SubWaitTimeout(i)
    \/ \E i \in Calls : SettleDone(i)
    \/ \E i \in Calls : MsgWaitDone(i)
    \/ \E i \in Calls : MsgWaitTimeout(i)
    \/ \E i \in Calls, t \in Topics, s \in Timeouts : SerialReceive(i, t, s)

SpecThreaded == InitThreaded /\ [][NextThreaded]_vars

\* a client of the server gets a prompt
GetPromptHelp ==
    /\ prompt' = [name |-> "mqtt_help", error |-> NoError, messages |-> mqtt_help]
    /\ UNCHANGED connv

GetPromptError(error) ==
    /\ prompt' = [name |-> "mqtt_error", error |-> error,
                  messages |-> mqtt_error(error)]
    /\ UNCHANGED connv

NextPrompts ==
    \/ GetPromptHelp
    \/ \E error \in Errors : GetPromptError(error)

SpecPrompts == Init /\ [][NextPrompts]_vars

\* ------------------------------------------------------------- properties
\* call i ends in this step
Ends(i) == calls[i].pc # "done" /\ calls'[i].pc = "done"

Receives == {i \in Calls : calls[i].kind = "receive"}

Publishes == {c \in Calls : calls[c].kind = "publish"}

\* C1: open returns the Connection only if a connect callback with reason
\* code 0 was delivered before; a rejection, a disconnect or no callback at
\* all never makes it return successfully.
C1_OpenOnlyAfterPositiveAck == open_result = "ok" => connack = 0

C1_Opened == life = "open" /\ open_result = "ok" /\ connack = 0

\* C2: a receive on a connected Connection during which no message on its
\* topic is delivered, and which its caller does not cancel, ends with the
\* receive-timeout error, no later than its timeout plus scheduling slack
\* after it started.
C2_TimeoutWithinBound ==
    [][\A i \in Receives :
          (/\ Ends(i)
           /\ calls[i].pc \in {"sub_wait", "settle", "msg_wait"}
           /\ calls[i].alone
           /\ calls[i].due = ""
           /\ sock = "open"
           /\ calls'[i].outcome # "cancelled")
          => /\ calls'[i].outcome = "timeout"
             /\ calls[i].elapsed <= Seconds(calls[i].timeout) + Slack]_vars

\* C3: when a receive or publish call ends, by any exit path, on_message
\* and on_subscribe are the handlers that were installed before the call.
C3_HandlersRestored ==
    [][\A i \in Calls :
          Ends(i) => /\ on_message' = calls'[i].orig_msg
                     /\ on_subscribe' = calls'[i].orig_sub]_vars

\* C4: a receive never returns the payload of a message on another topic
\* than its own: a message on the topic of an earlier receive does not
\* settle the wait of a later receive on a different topic.
C4_NoCrossDelivery ==
    \A i \in Receives :
        calls[i].outcome = "payload" => calls[i].value.topic = calls[i].topic

C6_UnreachableEndsInTimeout ==
    (life = "failed" /\ connack = -1) => open_result = "timeout_error"

\* C7: once close has returned after a successful open, nothing is
\* registered for the socket's read or write readiness and no maintenance
\* task or thread runs; a second close leaves this as it is.
C7_CloseLeavesNothing ==
    (open_result = "ok" /\ closes >= 1)
    => ~reader /\ ~writer /\ misc # "running" /\ ~thread

C7_ClosedTwice ==
    /\ open_result = "ok" /\ life = "closed" /\ closes = 2
    /\ sock = "closed" /\ ~reader /\ ~writer

\* C8: a publish with qos > 0 returns successfully only if the broker's
\* delivery confirmation was observed.
C8_PublishReturnsOnlyIfConfirmed ==
    [][\A c \in Publishes :
          (Ends(c) /\ calls[c].qos > 0 /\ calls'[c].outcome = "ok" /\ sock = "open")
          => c \in published']_vars

\* C9: a call that is waiting for its message or for its acknowledgment
\* when the transport reports a disconnect with a non-zero reason code ends
\* with the unexpected-disconnect error.
C9_DisconnectReachesWaiter ==
    [][\A i \in Calls :
          (/\ Ends(i)
           /\ calls[i].lost
           /\ calls[i].pc \in {"msg_wait", "pub_block"}
           /\ calls'[i].outcome # "cancelled")
          => calls'[i].outcome = "unexpected_disconnect"]_vars

\* C10: while a receive is outstanding, no other receive replaces the
\* future slot or the handlers it installed.
C10_SlotNotReplaced ==
    \A i \in Receives :
        calls[i].pc \in {"sub_wait", "settle"}
        => future = i /\ on_message = i /\ on_subscribe = i

\* C11: no outcome signal is settled twice: no settlement is applied to, or
\* attempted on, a signal that is already settled or cancelled, also when
\* several callbacks are delivered before the event loop runs what they
\* scheduled.
C11_SettledAtMostOnce == ~invalid_state

\* C12: after open has failed by timeout or by the broker's rejection,
\* nothing of the Connection is registered for the socket's readiness and
\* no maintenance task or thread of it runs.
C12_NothingLeftAfterFailedOpen ==
    (life = "failed" /\ open_result \in {"timeout_error", "rejected"})
    => ~reader /\ ~writer /\ misc # "running" /\ ~thread

\* C13: mqtt_error returns exactly two messages, the error report and then
\* the retry/change/abort question, when it is given a non-empty error
\* string, and no messages when the error is absent or empty.
C13_ErrorPromptMessages ==
    prompt.name = "mqtt_error"
    => IF prompt.error.given /\ Len(prompt.error.text) > 0
       THEN /\ Len(prompt.messages) = 2
            /\ prompt.messages[1].content = <<"ERROR: ">> \o Repr(prompt.error.text)
            /\ prompt.messages[2].content =
                   <<"Would you like to retry, change parameters, or abort?">>
       ELSE prompt.messages = <<>>

C13_ErrorReported ==
    /\ prompt.name = "mqtt_error"
    /\ prompt.error.given
    /\ Len(prompt.error.text) = MaxErrorLen
    /\ Len(prompt.messages) = 2

\* C14: mqtt_help, called with no arguments, returns exactly one message.
C14_HelpReturnsOneMessage ==
    prompt.name = "mqtt_help" => Len(prompt.messages) = 1

\* C15: the wait of a publish with qos > 0 for its acknowledgment is
\* cooperative: while it lasts the event loop serves the socket's write
\* readiness, so the publish packet has been written when the wait ends.
C15_PublishWrittenDuringWait ==
    [][\A c \in Publishes :
          (/\ calls[c].pc = "pub_block"
           /\ calls'[c].pc # "pub_block"
           /\ sock = "open")
          => \A k \in 1..Len(outq) : outq[k] # Packet("PUBLISH", c)]_vars

\* C17: the expiry of the 2-second wait for the subscribe acknowledgment
\* is not fatal: with or without the acknowledgment receive goes on to the
\* settle delay and then to the wait for the message, and a message on its
\* topic delivered after the expiry, within the caller's timeout, is
\* returned.
C17_AckExpiryNotFatal ==
    [][\A i \in Receives :
          /\ (calls[i].pc = "sub_wait" /\ calls'[i].pc # "sub_wait"
               /\ calls'[i].outcome # "cancelled")
              => calls'[i].pc = "settle"
          /\ (calls[i].pc = "settle" /\ calls'[i].pc # "settle"
               /\ calls'[i].outcome # "cancelled")
              => calls'[i].pc = "msg_wait"
          /\ (Ends(i) /\ calls[i].due = "msg_wait"
               /\ subfut[i].state = "cancelled"
               /\ calls'[i].outcome # "cancelled")
              => /\ calls'[i].outcome = "payload"
                 /\ calls'[i].value.topic = calls[i].topic
                 /\ calls'[i].value.text \in Messages]_vars

\* C18: when the subscribe request of receive returns a non-success
\* result, receive fails at once with the subscribe error: it queues no
\* request, starts no wait and returns no payload.
C18_SubscribeFailureImmediate ==
    [][\A i \in Calls :
          (/\ calls[i].kind = "none"
           /\ calls'[i].kind = "receive"
           /\ subscribe(sock) # "MQTT_ERR_SUCCESS")
          => /\ calls'[i].pc = "done"
             /\ calls'[i].outcome = "subscribe_error"
             /\ calls'[i].value = NoVal
             /\ calls'[i].timer = 0
             /\ outq' = outq]_vars

C18_SubscribeFailed ==
    \E i \in Receives :
        /\ calls[i].outcome = "subscribe_error"
        /\ sock = "closed"
        /\ outq = <<>>

\* C19: after a receive has ended with a timeout, a subscribe
\* acknowledgment for it that arrives late settles no outcome signal, and
\* a message on its topic that arrives late does not settle the signal of
\* a receive on a different topic.
C19_LateArrivalsDropped ==
    [][\A i \in Receives :
          calls[i].outcome = "timeout"
          => /\ (i \in suback /\ i \notin suback' /\ sock' = "open")
                 => ready' = ready
             /\ \A k \in (Len(ready) + 1)..Len(ready') :
                   (ready'[k].fut[1] = "msg" /\ ready'[k].v.topic = calls[i].topic)
                   => calls[ready'[k].fut[2]].topic = calls[i].topic]_vars

\* C20: the message handler is installed before the subscribe request is
\* issued: a message on the topic that is delivered during the wait for
\* the subscribe acknowledgment or during the settle delay is returned by
\* that receive call.
C20_EarlyMessageReturned ==
    [][\A i \in Receives :
          (/\ Ends(i)
           /\ calls[i].due \in {"sub_wait", "settle"}
           /\ calls'[i].outcome # "cancelled")
          => /\ calls'[i].outcome = "payload"
             /\ calls'[i].value.topic = calls[i].topic
             /\ calls'[i].value.text \in Messages]_vars

\* C16: when the callbacks run on a foreign thread (every settlement then
\* goes to the event loop through the thread-safe handoff), a callback that
\* races with the clean-up of receive, which sets self.future to None,
\* never raises.
C16_CallbackNeverRaises == thread_cb.stage # "raised"

====
